---- MODULE Spec2Model ----
(***************************************************************************)
(* Inference-instance admin backend: the Instance table, the append-only   *)
(* History table and the service calls that write both                     *)
(* (services/instance_service.py, services/history_service.py, models.py). *)
(*                                                                         *)
(* Every request runs in its own SQLAlchemy session (database.get_db).     *)
(* A session only changes the database at session.commit(); the model has  *)
(* one action for each stretch of a service call that ends in a commit, so *)
(* that calls of different sessions interleave between their commits and   *)
(* the committed tables are what any other reader sees.                    *)
(* A commit whose statements are accepted may still fail (storage fault):  *)
(* nothing is written and the call takes its error path.                   *)
(*                                                                         *)
(* One server process runs its requests one after the other (the handlers  *)
(* are async functions that never await inside a service call); calls      *)
(* interleave when several server processes share the database.  Spec      *)
(* explores two servers within one reading of the clock, SpecSeq one       *)
(* server with the clock advancing, richer inputs and one more Instance,   *)
(* SpecVal one server fed with data the validators have to judge.          *)
(* SpecStamp follows an update statement by statement between two servers: *)
(* its first SELECT opens the transaction whose start time postgresql's    *)
(* now() reports to the INSERT of the history record.                      *)
(* SpecRate is the rate limiter of the middleware (middleware.py) in one   *)
(* server process.                                                         *)
(***************************************************************************)
EXTENDS Integers, Sequences, FiniteSets, TLC

\* ------------------------------------------------------------------ bounds
MaxId == 2            \* largest Instance id handed out
MaxHist == 3          \* largest history_id handed out
MaxFaults == 1        \* commits that fail for a storage fault
MaxNameTokens == 3    \* longest instance name, in tokens
MaxIdSeq == 3         \* largest Instance id handed out when one server runs
MaxClock == 1         \* latest reading of the clock
MaxLimit == 2         \* largest page size asked for
MaxRequests == 4      \* requests the middleware handles
MaxRateLimit == 2     \* largest configured auth_rate_limit

\* --------------------------------------------------------------- constants
Sessions == {"s1", "s2"}
Engines == {"sqlite", "postgresql"}
NoRow == [id |-> 0]

StatusValues == {"active", "inactive", "pending", "error"}
PriorityValues == {"high", "normal", "low", "very_low"}
DefaultPriorities == <<"high", "normal", "low", "very_low">>

VARIABLES
    wall,        \* time.time() of the server process, in whole seconds
    limits,      \* rate_limiter.limits: per key, its RateLimitInfo
    admitted,    \* per key, the times recorded for the requests the limiter let through
    served,      \* requests SecurityMiddleware.dispatch has handled
    resp,        \* the response of the request handled most recently
    servers,     \* server processes (uvicorn.run) that share the database
    now,         \* the clock, in whole seconds: datetime.utcnow() and the database's now()
    began,       \* per session: the reading of the clock when the transaction began in
                 \* which its call is about to insert a history record
    engine,      \* which database the DATABASE_URL selects
    instances,   \* committed rows of inference_instances
    history,     \* committed rows of inference_instances_history, insertion order
    idSeq,       \* postgresql: last value of the inference_instances id sequence
    histSeq,     \* postgresql: last value of the history_id sequence
    pc,          \* per session: position inside the running service call
    patch,       \* per session: update_data of the running update
    loc,         \* per session: the Instance object the running call holds
    hidx,        \* per session: position in history of the record the running call appended (0: none)
    outcome,     \* per history record, the fate of the call that appended it: "pending",
                 \* "failed", "ok", or "applied" (ok, and its commit changed the Instance row)
    faults,      \* commits that have failed for a storage fault
    last         \* the call that finished most recently: what it was and how it ended

vars == <<wall, limits, admitted, served, resp, servers, now, began, engine, instances, history, idSeq, histSeq, pc, patch, loc, hidx, outcome, faults, last>>

\* ------------------------------------------------------------ input domains
\* Names are sequences of tokens, so that appending "copy" and a counter is
\* string concatenation: "a" + "copy" + "1" is <<"a", "copy", "1">>.
BaseNames == {<<"a">>, <<"b">>}
DigitStr == <<"0", "1", "2", "3", "4", "5", "6", "7", "8", "9">>
CopyNameInputs == {<<>>, <<"b">>}

CreateInputs ==
    {[name |-> n, model_name |-> "m1", cluster_name |-> "c1", image_tag |-> "v1"] : n \in BaseNames}
    \cup {[name |-> <<>>, model_name |-> "m1", cluster_name |-> "c1", image_tag |-> "v1"]}

UpdateInputs ==
    {[status |-> "inactive"], [name |-> <<"a">>], [priority |-> "low"], [id |-> 1]}

\* What SpecSeq feeds the calls
SeqCreateInputs ==
    {[name |-> <<"a">>, model_name |-> "m1", cluster_name |-> "c1", image_tag |-> "v1"],
     [name |-> <<"a", "copy">>, model_name |-> "m1", cluster_name |-> "c1", image_tag |-> "v1",
      description |-> "d1"]}

LowFirst == <<"low", "normal", "high", "very_low">>

\* What SpecVal feeds the calls: good data, and data with a required field
\* missing or empty, a count below one, or a value outside its enumeration
RequiredFields == {"name", "model_name", "cluster_name", "image_tag"}
ShapeFields == {"pp", "cp", "tp", "n_workers", "replicas"}
GoodData == [name |-> <<"a">>, model_name |-> "m1", cluster_name |-> "c1", image_tag |-> "v1"]
Without(d, k) == [f \in DOMAIN d \ {k} |-> d[f]]
With(d, k, v) == [f \in DOMAIN d \cup {k} |-> IF f = k THEN v ELSE d[f]]
Empty(k) == IF k = "name" THEN <<>> ELSE ""

ValCreateInputs ==
    {GoodData, With(With(With(GoodData, "name", <<"b">>), "pp", 2), "n_workers", 2)}
    \cup {Without(GoodData, k) : k \in RequiredFields}
    \cup {With(GoodData, k, Empty(k)) : k \in RequiredFields}
    \cup {With(GoodData, k, 0) : k \in ShapeFields}
    \cup {With(GoodData, "status", "bogus"), With(GoodData, "priority", "bogus")}

ValUpdateInputs ==
    {[status |-> "inactive"], [pp |-> 2], [status |-> "bogus"], [priority |-> "bogus"]}
    \cup {With(<<>>, k, 0) : k \in ShapeFields}

SeqUpdateInputs ==
    {[priority |-> "low"], [priorities |-> LowFirst], [description |-> "d2"],
     [status |-> "active"], [status |-> "inactive", priority |-> "low"],
     [id |-> 1], [created_at |-> 0]}

\* ----------------------------------------------------------- pure helpers
Has(d, k) == k \in DOMAIN d

RECURSIVE NameChars(_)
NameChars(n) ==
    IF n = <<>> THEN 0
    ELSE (IF Head(n) = "copy" THEN 4 ELSE 1) + NameChars(Tail(n))

NameMaxLength == 255
DefaultCp == 8

\* _validate_field_constraints without its checks of the enumerations
ValidateFieldConstraints_NoEnums(d) ==
    /\ (Has(d, "name") /\ d.name # <<>>) => NameChars(d.name) <= NameMaxLength
    /\ \A f \in {"replicas", "pp", "cp", "tp"} \cap DOMAIN d : d[f] >= 1

\* InstanceService._validate_field_constraints
\* (the other string limits bound values that are atoms of the model)
ValidateFieldConstraints(d) ==
    /\ (Has(d, "name") /\ d.name # <<>>) => NameChars(d.name) <= NameMaxLength
    /\ \A f \in {"replicas", "pp", "cp", "tp"} \cap DOMAIN d : d[f] >= 1
    /\ (Has(d, "status") /\ d.status # "") => d.status \in StatusValues
    /\ (Has(d, "priority") /\ d.priority # "") => d.priority \in PriorityValues

\* InstanceService._validate_create_data
ValidateCreateData(d) ==
    /\ Has(d, "name") /\ d.name # <<>>
    /\ \A f \in {"model_name", "cluster_name", "image_tag"} : Has(d, f) /\ d[f] # ""
    /\ ValidateFieldConstraints(d)

\* _validate_update_data without its protected_fields loop
ValidateUpdateData_NoProtected(d) == ValidateFieldConstraints(d)

\* InstanceService._validate_update_data
ValidateUpdateData(d) ==
    /\ \A f \in {"id", "created_at"} : ~Has(d, f)
    /\ ValidateFieldConstraints(d)

\* The lower-cased text of the IntegrityError raised for the unique index on
\* inference_instances.name, as the set of phrases map_sqlalchemy_error looks for.
UniqueViolationText(e) ==
    IF e = "sqlite" THEN {"unique constraint", "name"}
    ELSE {"duplicate key", "unique constraint", "name"}

\* map_sqlalchemy_error as it would be if it recognised only postgresql's
\* "duplicate key" wording
map_sqlalchemy_error_DuplicateKeyOnly(text) ==
    IF "duplicate key" \in text THEN "ConflictError"
    ELSE IF "not null constraint" \in text \/ "null value" \in text THEN "ValidationError"
    ELSE IF "foreign key constraint" \in text THEN "ValidationError"
    ELSE "OperationError"

\* services.exceptions.map_sqlalchemy_error
map_sqlalchemy_error(text) ==
    IF "unique constraint" \in text \/ "duplicate key" \in text THEN "ConflictError"
    ELSE IF "not null constraint" \in text \/ "null value" \in text THEN "ValidationError"
    ELSE IF "foreign key constraint" \in text THEN "ValidationError"
    ELSE "OperationError"

Max(S) == IF S = {} THEN 0 ELSE CHOOSE x \in S : \A y \in S : y <= x

\* ------------------------------------------------------------- the tables
Ids == {r.id : r \in instances}
Names == {r.name : r \in instances}

\* InstanceService.get_by_id / get_by_name on the committed table
get_by_id(i) == IF i \in Ids THEN CHOOSE r \in instances : r.id = i ELSE NoRow
get_by_name(n) == IF n \in Names THEN CHOOSE r \in instances : r.name = n ELSE NoRow

\* The id the INSERT into inference_instances receives: sqlite hands out
\* max(rowid)+1 for an INTEGER PRIMARY KEY, postgresql the next sequence value.
NextId == IF engine = "sqlite" THEN Max(Ids) + 1 ELSE idSeq + 1
\* The history_id of the INSERT as it would be if it came from the sequence
\* counter on either database
NextHistoryId_SequenceOnly == histSeq + 1

NextHistoryId ==
    IF engine = "sqlite" THEN Max({history[k].history_id : k \in DOMAIN history}) + 1
    ELSE histSeq + 1

\* The value the column default func.now() gives the INSERT of session s:
\* CURRENT_TIMESTAMP of sqlite is the time of the statement, now() of
\* postgresql the time the transaction began
TxnTimestamp(s) == IF engine = "postgresql" THEN began[s] ELSE now

\* The InferenceInstance(...) constructor call of InstanceService.create
NewInstance(d, i) ==
    [id |-> i,
     name |-> d.name,
     model_name |-> d.model_name,
     cluster_name |-> d.cluster_name,
     image_tag |-> IF Has(d, "image_tag") THEN d.image_tag ELSE "latest",
     pp |-> IF Has(d, "pp") THEN d.pp ELSE 1,
     cp |-> IF Has(d, "cp") THEN d.cp ELSE DefaultCp,
     tp |-> IF Has(d, "tp") THEN d.tp ELSE 1,
     n_workers |-> IF Has(d, "n_workers") THEN d.n_workers ELSE 1,
     replicas |-> IF Has(d, "replicas") THEN d.replicas ELSE 1,
     priorities |-> DefaultPriorities,
     desc |-> IF Has(d, "description") THEN d.description ELSE "",
     status |-> IF Has(d, "status") THEN d.status ELSE "active",
     created_at |-> now,
     updated_at |-> now]

\* InferenceInstanceHistory.from_instance, with the history_id and the
\* operation_timestamp (column default func.now()) of the INSERT
from_instance(inst, op, h, ts) ==
    [history_id |-> h,
     original_id |-> inst.id,
     operation_type |-> op,
     operation_timestamp |-> ts,
     name |-> inst.name,
     model_name |-> inst.model_name,
     cluster_name |-> inst.cluster_name,
     image_tag |-> inst.image_tag,
     pp |-> inst.pp,
     cp |-> inst.cp,
     tp |-> inst.tp,
     n_workers |-> inst.n_workers,
     replicas |-> inst.replicas,
     priorities |-> inst.priorities,
     desc |-> inst.desc,
     status |-> inst.status,
     created_at |-> inst.created_at,
     updated_at |-> inst.updated_at]

\* What a history record says about the Instance: its fields without the
\* history metadata, in the shape of an Instance row.
Snapshot(rec) ==
    [id |-> rec.original_id,
     name |-> rec.name,
     model_name |-> rec.model_name,
     cluster_name |-> rec.cluster_name,
     image_tag |-> rec.image_tag,
     pp |-> rec.pp,
     cp |-> rec.cp,
     tp |-> rec.tp,
     n_workers |-> rec.n_workers,
     replicas |-> rec.replicas,
     priorities |-> rec.priorities,
     desc |-> rec.desc,
     status |-> rec.status,
     created_at |-> rec.created_at,
     updated_at |-> rec.updated_at]

\* save_history as it would be if it wrote the snapshot over the newest record
\* instead of inserting a new one
AppendHistory_Overwrite(h, rec) ==
    IF h = <<>> THEN <<rec>> ELSE [h EXCEPT ![Len(h)] = rec]

\* The history table after HistoryService.save_history committed its INSERT
AppendHistory(h, rec) == Append(h, rec)

\* HistoryService.count_history(instance_id) without filters
count_history(i) == Cardinality({k \in DOMAIN history : history[k].original_id = i})

\* ORDER BY operation_timestamp DESC, history_id DESC: a comes before b
Newer(a, b) ==
    \/ a.operation_timestamp > b.operation_timestamp
    \/ a.operation_timestamp = b.operation_timestamp /\ a.history_id > b.history_id

\* The rows of S in that order
RECURSIVE NewestFirst(_)
NewestFirst(S) ==
    IF S = {} THEN <<>>
    ELSE LET top == CHOOSE a \in S : \A b \in S \ {a} : Newer(a, b)
         IN <<top>> \o NewestFirst(S \ {top})

\* HistoryService.get_history(session, instance_id) without filters, limit or offset
get_history(i) == NewestFirst({history[k] : k \in {j \in DOMAIN history : history[j].original_id = i}})

\* InstanceService.get_instance_history(session, instance_id)
get_instance_history(i) ==
    IF get_by_id(i) = NoRow THEN [raised |-> "NotFoundError", records |-> <<>>]
    ELSE [raised |-> "none", records |-> get_history(i)]

\* ---------------------------------------------- history queries, filtered
\* None, where an int is optional (instance_id, limit, offset)
None == -1

\* s ILIKE %part%: part occurs in s (names are token sequences)
Contains(s, part) ==
    \E k \in 0..(Len(s) - Len(part)) : \A j \in 1..Len(part) : s[k + j] = part[j]

\* The filter mappings the queries are asked with.  An operation_type or
\* status is given as the set of values it admits: a str stands for the
\* set of that one value (column == value), a list for the set of its
\* elements (column.in_(value)).
FilterInputs ==
    {<<>>,
     [operation_type |-> {"update"}],
     [operation_type |-> {"create", "delete"}],
     [status |-> {"inactive"}],
     [date_from |-> 1],
     [date_to |-> 0],
     [operation_type |-> {"update"}, date_from |-> 1],
     [original_id |-> 2],
     [name |-> <<"a">>],
     [name |-> <<"copy">>]}

\* HistoryService._apply_filters: the WHERE clauses the mapping adds, as a
\* predicate on one row
apply_filters(rec, f) ==
    /\ Has(f, "operation_type") => rec.operation_type \in f.operation_type
    /\ Has(f, "name") => Contains(rec.name, f.name)
    /\ Has(f, "status") => rec.status \in f.status
    /\ Has(f, "original_id") => rec.original_id = f.original_id
    /\ Has(f, "date_from") => rec.operation_timestamp >= f.date_from
    /\ Has(f, "date_to") => rec.operation_timestamp <= f.date_to

\* OFFSET and LIMIT as they would be if the offset counted from the second row
Paged_SkipsOne(rows, limit, offset) ==
    LET from == IF offset = None THEN 1 ELSE offset + 2
        upto == IF limit = None \/ from + limit - 1 > Len(rows) THEN Len(rows) ELSE from + limit - 1
    IN SubSeq(rows, from, upto)

\* query.offset(offset).limit(limit) on an ordered result
Paged(rows, limit, offset) ==
    LET from == IF offset = None THEN 1 ELSE offset + 1
        upto == IF limit = None \/ from + limit - 1 > Len(rows) THEN Len(rows) ELSE from + limit - 1
    IN SubSeq(rows, from, upto)

\* HistoryService.get_history(session, instance_id, filters, limit, offset)
get_history_page(i, f, limit, offset) ==
    Paged(NewestFirst({history[k] : k \in {j \in DOMAIN history :
                        history[j].original_id = i /\ apply_filters(history[j], f)}}),
          limit, offset)

\* HistoryService.get_all_history(session, filters, limit, offset)
get_all_history(f, limit, offset) ==
    Paged(NewestFirst({history[k] : k \in {j \in DOMAIN history : apply_filters(history[j], f)}}),
          limit, offset)

\* count_history as it would be if it left the filters out
count_history_filtered_NoFilters(i, f) ==
    Cardinality({k \in DOMAIN history : i # None => history[k].original_id = i})

\* HistoryService.count_history(session, instance_id, filters)
count_history_filtered(i, f) ==
    Cardinality({k \in DOMAIN history :
                    /\ i # None => history[k].original_id = i
                    /\ apply_filters(history[k], f)})

\* has_more of the handler of GET /instances/{instance_id}/history
\* (api/history.py get_instance_history) for one page
has_more(i, f, limit, offset) ==
    offset + Len(get_history_page(i, f, limit, offset)) < count_history_filtered(i, f)

\* What a query that finds no row returns (None), as a record
NoRecord == [history_id |-> 0]

\* operation_type = None of get_latest_history, an absent operation_type
\* query parameter of the endpoint
AnyOperation == ""
OperationTypes == {"create", "update", "delete", "rollback"}

\* get_latest_history as it would be if it took the record inserted last
get_latest_history_LastInserted(i, op) ==
    LET S == {history[k] : k \in {j \in DOMAIN history :
                /\ history[j].original_id = i
                /\ op # AnyOperation => history[j].operation_type = op}}
    IN IF S = {} THEN NoRecord
       ELSE CHOOSE a \in S : \A b \in S : a.history_id >= b.history_id

\* HistoryService.get_latest_history(session, instance_id, operation_type):
\* ORDER BY operation_timestamp DESC, history_id DESC, then .first()
get_latest_history(i, op) ==
    LET S == {history[k] : k \in {j \in DOMAIN history :
                /\ history[j].original_id = i
                /\ op # AnyOperation => history[j].operation_type = op}}
    IN IF S = {} THEN NoRecord
       ELSE CHOOSE a \in S : \A b \in S \ {a} : Newer(a, b)

\* The handler of GET /instances/{instance_id}/history/latest (api/history.py
\* get_latest_history): get_history with limit 1, offset 0; NoRecord stands
\* for its 404
latest_endpoint(i, op) ==
    LET filters == IF op # AnyOperation THEN [operation_type |-> {op}] ELSE <<>>
        history_records == get_history_page(i, filters, 1, 0)
    IN IF Len(history_records) = 0 THEN NoRecord ELSE history_records[1]

\* HistoryService.validate_history_integrity(session, instance_id): the list
\* get_history returns, newest first, is walked pairwise, then its
\* history_ids are compared with their set
validate_history_integrity(i) ==
    LET h == get_history(i)
    IN IF Len(h) = 0 THEN TRUE
       ELSE IF \E j \in 2..Len(h) : h[j - 1].operation_timestamp < h[j].operation_timestamp THEN FALSE
       ELSE Cardinality({h[j].history_id : j \in 1..Len(h)}) = Len(h)

\* ---------------------------------------------------------- copy names
RECURSIVE Digits(_)
Digits(k) ==
    IF k < 10 THEN <<DigitStr[k + 1]>>
    ELSE Digits(k \div 10) \o <<DigitStr[(k % 10) + 1]>>

CopyAttempts == 1000

\* f"{base_name}copy{counter}"
Numbered(base, k) == base \o <<"copy">> \o Digits(k)

\* The counters from k up to top for which get_by_name finds no row.  The
\* loop never counts further than one lookup for every name of the table and
\* one more, so the counters beyond that are left out.
FreeCounters(base, k, top) ==
    LET taken == Names
        reach == IF k + Cardinality(taken) < top THEN k + Cardinality(taken) ELSE top
    IN {c \in k..reach : Numbered(base, c) \notin taken}

\* The while loop as it would be if it gave up one candidate early
NumberedCopyName_OneShort(base, k) ==
    LET free == FreeCounters(base, k, CopyAttempts - 1)
    IN IF free = {} THEN <<>>
       ELSE Numbered(base, CHOOSE c \in free : \A d \in free : c <= d)

\* The while loop of InstanceService._generate_copy_name from counter k on:
\* it returns at the first counter whose name is free and counts on
\* otherwise; <<>> stands for the InstanceOperationError raised when the
\* counter exceeds 1000.
NumberedCopyName(base, k) ==
    LET free == FreeCounters(base, k, CopyAttempts)
    IN IF free = {} THEN <<>>
       ELSE Numbered(base, CHOOSE c \in free : \A d \in free : c <= d)

\* _generate_copy_name as it would be if it went to the numbered names at once
generate_copy_name_AlwaysNumbered(base) == NumberedCopyName(base, 1)

\* InstanceService._generate_copy_name
generate_copy_name(base) ==
    IF (base \o <<"copy">>) \notin Names THEN base \o <<"copy">>
    ELSE NumberedCopyName(base, 1)

\* copy_data of InstanceService.copy_instance
CopyData(src, n) ==
    [name |-> n,
     model_name |-> src.model_name,
     cluster_name |-> src.cluster_name,
     image_tag |-> src.image_tag,
     pp |-> src.pp,
     cp |-> src.cp,
     tp |-> src.tp,
     n_workers |-> src.n_workers,
     replicas |-> src.replicas,
     description |-> src.desc,
     status |-> src.status]

\* ------------------------------------------------------------- update
\* The columns the for loop of InstanceService.update leaves with a net
\* change that the flush writes, and their new values.  priorities[0] = value
\* changes the list in place, which the unit of work does not track; a
\* 'priorities' key goes through setattr, which it does.  (No input holds
\* both keys.)
PatchedColumns(obj, p) ==
    {f \in DOMAIN p \ {"id", "created_at", "description", "priority"} :
        f \in DOMAIN obj /\ p[f] # obj[f]}
    \cup (IF Has(p, "description") /\ p.description # obj.desc THEN {"desc"} ELSE {})
    \cup (IF Has(p, "priority") /\ Len(obj.priorities) = 0 THEN {"priorities"} ELSE {})

PatchedValue(p, f) ==
    IF f = "desc" THEN p.description
    ELSE IF f = "priorities" /\ ~Has(p, "priorities") THEN <<p.priority, "normal", "low", "very_low">>
    ELSE p[f]

\* An update that replaces the row: a description the patch does not name is
\* reset
ApplyPatch_Replace(row, obj, p) ==
    [f \in DOMAIN row |->
        IF f \in PatchedColumns(obj, p) THEN PatchedValue(p, f)
        ELSE IF f = "updated_at" /\ PatchedColumns(obj, p) # {} THEN now
        ELSE IF f = "desc" /\ PatchedColumns(obj, p) # {} THEN ""
        ELSE row[f]]

\* The row after UPDATE ... SET <patched columns>, updated_at = <onupdate>
\* WHERE id = obj.id; no statement is sent when no column has a net change.
ApplyPatch(row, obj, p) ==
    [f \in DOMAIN row |->
        IF f \in PatchedColumns(obj, p) THEN PatchedValue(p, f)
        ELSE IF f = "updated_at" /\ PatchedColumns(obj, p) # {} THEN now
        ELSE row[f]]

\* -------------------------------------------------------- rate limiter
AuthRateLimit == 10
WindowSeconds == 60
ClientKeys == {"auth_ip1", "auth_ip2"}

\* RateLimitInfo.__init__
RateLimitInfo(max_requests, window_seconds) ==
    [max_requests |-> max_requests, window_seconds |-> window_seconds, requests |-> <<>>]

\* The limiter before any request: the defaultdict makes the RateLimitInfo
\* of a key when the key is first looked up, with settings.auth_rate_limit
LimiterInit(limit) ==
    /\ wall = 0
    /\ limits = [k \in ClientKeys |-> RateLimitInfo(limit, WindowSeconds)]
    /\ admitted = [k \in ClientKeys |-> <<>>]
    /\ served = 0
    /\ resp = [key |-> "", kind |-> "none", status |-> 0, at |-> 0]

\* The while loop as it would be if it dropped a request one second early
RECURSIVE Pruned_OneEarly(_, _, _)
Pruned_OneEarly(requests, t, window_seconds) ==
    IF requests # <<>> /\ Head(requests) <= t - window_seconds + 1
    THEN Pruned_OneEarly(Tail(requests), t, window_seconds)
    ELSE requests

\* The while loop of RateLimitInfo.is_allowed: popleft while the oldest
\* request is at or before now - window_seconds
RECURSIVE Pruned(_, _, _)
Pruned(requests, t, window_seconds) ==
    IF requests # <<>> /\ Head(requests) <= t - window_seconds
    THEN Pruned(Tail(requests), t, window_seconds)
    ELSE requests

\* RateLimitInfo.is_allowed at time t: the deque it leaves and its result
is_allowed(info, t) ==
    LET kept == Pruned(info.requests, t, info.window_seconds)
    IN [info |-> [info EXCEPT !.requests = kept], allowed |-> Len(kept) < info.max_requests]

\* RateLimitInfo.add_request at time t
add_request(info, t) == [info EXCEPT !.requests = Append(@, t)]

\* What the requests look like: the seconds since the request before, the
\* method and path (a preflight, an authentication endpoint, another
\* endpoint), and the seconds between the two readings of time.time() in
\* is_allowed and add_request
Gaps == {0, 1, WindowSeconds - 1, WindowSeconds}
Kinds == {"options", "auth", "other"}
Lags == {0, 1}

\* SecurityMiddleware.dispatch for a request of client key k; the calls it
\* passes on to answer 200
dispatch(k, kind, gap, lag) ==
    /\ served < MaxRequests
    /\ served' = served + 1
    /\ LET t == wall + gap
           checked == is_allowed(limits[k], t)
       IN
       IF kind # "auth"
       THEN /\ wall' = t
            /\ resp' = [key |-> k, kind |-> kind, status |-> 200, at |-> t]
            /\ UNCHANGED <<limits, admitted>>
       ELSE IF ~checked.allowed
       THEN /\ wall' = t
            /\ limits' = [limits EXCEPT ![k] = checked.info]
            /\ resp' = [key |-> k, kind |-> kind, status |-> 429, at |-> t]
            /\ UNCHANGED admitted
       ELSE /\ wall' = t + lag
            /\ limits' = [limits EXCEPT ![k] = add_request(checked.info, t + lag)]
            /\ admitted' = [admitted EXCEPT ![k] = Append(@, t + lag)]
            /\ resp' = [key |-> k, kind |-> kind, status |-> 200, at |-> t]
    /\ UNCHANGED <<servers, now, began, engine, instances, history, idSeq, histSeq, pc, patch,
                   loc, hidx, outcome, faults, last>>

\* ---------------------------------------------------------------- Init
NoCall == [op |-> "none", name |-> <<>>, res |-> "none", inplace |-> FALSE]

Init ==
    /\ servers = 2
    /\ now = 0
    /\ engine \in Engines
    /\ instances = {}
    /\ history = <<>>
    /\ idSeq = 0
    /\ histSeq = 0
    /\ pc = [s \in Sessions |-> "idle"]
    /\ patch = [s \in Sessions |-> <<>>]
    /\ loc = [s \in Sessions |-> NoRow]
    /\ hidx = [s \in Sessions |-> 0]
    /\ outcome = <<>>
    /\ faults = 0
    /\ LimiterInit(AuthRateLimit)
    /\ began = [s \in Sessions |-> 0]
    /\ last = NoCall

\* How far the ids are explored
IdCap == IF servers = 1 THEN MaxIdSeq ELSE MaxId

\* Session s may begin a call: its request is not being served already, and
\* a single server is not inside another request
CanStart(s) ==
    /\ pc[s] = "idle"
    /\ servers = 1 => \A t \in Sessions : pc[t] = "idle"

\* How many storage faults are explored
FaultCap == IF servers = 1 THEN 0 ELSE MaxFaults

\* Whether the commit at hand goes through: it may fail for a storage fault
CommitOutcomes == IF faults < FaultCap THEN {TRUE, FALSE} ELSE {TRUE}
Faulted(ok) == faults' = IF ok THEN faults ELSE faults + 1

\* The running call of session s ends: op with result e; n: the name it asked
\* for (<<>>: none); inplace: it changed the loaded priorities list in place.
EndCall(s, op, n, e, inplace) ==
    /\ pc' = [pc EXCEPT ![s] = "idle"]
    /\ patch' = [patch EXCEPT ![s] = <<>>]
    /\ loc' = [loc EXCEPT ![s] = NoRow]
    /\ hidx' = [hidx EXCEPT ![s] = 0]
    /\ last' = [op |-> op, name |-> n, res |-> e, inplace |-> inplace]

\* A call that ends before its first commit
Reject(s, op, n, e) ==
    /\ EndCall(s, op, n, e, FALSE)
    /\ UNCHANGED <<wall, limits, admitted, served, resp, servers, now, began, engine, instances, history, idSeq, histSeq, outcome, faults>>

\* HistoryService.save_history(session, inst, op): from_instance, add, commit.
\* A failed commit (ok = FALSE) is rolled back and surfaces as
\* HistoryOperationError, which the callers re-raise as InstanceOperationError.
SaveHistory(inst, op, ts, ok, fate) ==
    /\ NextHistoryId <= MaxHist
    /\ histSeq' = IF engine = "postgresql" THEN histSeq + 1 ELSE histSeq
    /\ Faulted(ok)
    /\ IF ok
       THEN /\ history' = AppendHistory(history, from_instance(inst, op, NextHistoryId, ts))
            /\ outcome' = Append(outcome, fate)
       ELSE UNCHANGED <<history, outcome>>

\* The name the data of a call asks for: update_data['name'] when the patch
\* renames, instance_data['name'] of a create
PatchName(p) == IF Has(p, "name") THEN p.name ELSE <<>>

\* InstanceService.create up to and including session.commit() and
\* session.refresh(instance), whose SELECT opens the transaction of the
\* save_history that follows; op is "create" or "copy"
InsertInstance(s, op, d) ==
    IF ~ValidateCreateData(d) THEN Reject(s, op, PatchName(d), "ValidationError")
    ELSE
        /\ NextId <= IdCap
        /\ idSeq' = IF engine = "postgresql" THEN idSeq + 1 ELSE idSeq
        /\ UNCHANGED <<wall, limits, admitted, served, resp, servers, now, engine, history, histSeq, outcome>>
        /\ IF d.name \in Names
           THEN \* IntegrityError: rollback, map_sqlalchemy_error
                /\ EndCall(s, op, d.name, map_sqlalchemy_error(UniqueViolationText(engine)), FALSE)
                /\ UNCHANGED <<instances, faults, began>>
           ELSE \E ok \in CommitOutcomes :
                /\ Faulted(ok)
                /\ IF ok
                   THEN /\ instances' = instances \cup {NewInstance(d, NextId)}
                        /\ loc' = [loc EXCEPT ![s] = NewInstance(d, NextId)]
                        /\ pc' = [pc EXCEPT ![s] = IF op = "copy" THEN "copy_history" ELSE "create_history"]
                        /\ began' = [began EXCEPT ![s] = now]
                        /\ UNCHANGED <<patch, hidx, last>>
                   ELSE /\ EndCall(s, op, d.name, "OperationError", FALSE)
                        /\ UNCHANGED <<instances, began>>

\* InstanceService.create, first part
Create(s, d) ==
    /\ CanStart(s)
    /\ InsertInstance(s, "create", d)

\* InstanceService.create, second part: HistoryService.save_history(CREATE),
\* for a create and for the create inside copy_instance
CreateSaveHistory(s) ==
    /\ pc[s] \in {"create_history", "copy_history"}
    /\ \E ok \in CommitOutcomes :
        /\ SaveHistory(loc[s], "create", TxnTimestamp(s), ok, "applied")
        /\ EndCall(s, IF pc[s] = "copy_history" THEN "copy" ELSE "create", loc[s].name,
                   IF ok THEN "ok" ELSE "OperationError", FALSE)
    /\ UNCHANGED <<wall, limits, admitted, served, resp, servers, now, began, engine, instances, idSeq>>

\* The part of update and delete up to the commit of save_history: the
\* pre-image is appended and the instance, expired by that commit, is loaded
\* again when save_history logs instance.name.
AppendPreImage(s, op, i, p, next) ==
    \E ok \in CommitOutcomes :
        /\ SaveHistory(get_by_id(i), op, now, ok, "pending")
        /\ IF ok
           THEN /\ loc' = [loc EXCEPT ![s] = get_by_id(i)]
                /\ hidx' = [hidx EXCEPT ![s] = Len(history) + 1]
                /\ patch' = [patch EXCEPT ![s] = p]
                /\ pc' = [pc EXCEPT ![s] = next]
                /\ UNCHANGED last
           ELSE EndCall(s, op, PatchName(p), "OperationError", FALSE)
        /\ UNCHANGED <<wall, limits, admitted, served, resp, servers, now, began, engine, instances, idSeq>>

\* InstanceService.update, first part: get_by_id, _validate_update_data,
\* HistoryService.save_history(UPDATE)
Update(s, i, p) ==
    /\ CanStart(s)
    /\ IF get_by_id(i) = NoRow THEN Reject(s, "update", PatchName(p), "NotFoundError")
       ELSE IF ~ValidateUpdateData(p) THEN Reject(s, "update", PatchName(p), "ValidationError")
       ELSE AppendPreImage(s, "update", i, p, "update_apply")

\* The record the running call of s appended learns the fate of its call
Settle(s, fate) == outcome' = [outcome EXCEPT ![hidx[s]] = fate]

\* priorities[0] = value on the loaded list (InstanceService.update, the
\* 'priority' branch with a non-empty list)
InPlace(obj, p) == Has(p, "priority") /\ Len(obj.priorities) > 0

\* InstanceService.update, second part: the for loop over update_data,
\* session.commit(), session.refresh(instance)
UpdateApply(s) ==
    /\ pc[s] = "update_apply"
    /\ LET obj == loc[s]
           p == patch[s]
           row == get_by_id(obj.id)
           cols == PatchedColumns(obj, p)
       IN
       IF row = NoRow
       THEN \* StaleDataError from the UPDATE, or the refresh finds no row
            /\ EndCall(s, "update", PatchName(p), "OperationError", InPlace(obj, p))
            /\ Settle(s, "failed")
            /\ UNCHANGED <<instances, faults>>
       ELSE IF "name" \in cols /\ \E o \in instances : o.id # obj.id /\ o.name = p.name
       THEN \* IntegrityError: rollback, map_sqlalchemy_error
            /\ EndCall(s, "update", PatchName(p), map_sqlalchemy_error(UniqueViolationText(engine)),
                       InPlace(obj, p))
            /\ Settle(s, "failed")
            /\ UNCHANGED <<instances, faults>>
       ELSE \E ok \in CommitOutcomes :
            /\ Faulted(ok)
            /\ IF ok
               THEN /\ instances' = (instances \ {row}) \cup {ApplyPatch(row, obj, p)}
                    /\ EndCall(s, "update", PatchName(p), "ok", InPlace(obj, p))
                    /\ Settle(s, IF ApplyPatch(row, obj, p) # row THEN "applied" ELSE "ok")
               ELSE /\ EndCall(s, "update", PatchName(p), "OperationError", InPlace(obj, p))
                    /\ Settle(s, "failed")
                    /\ UNCHANGED instances
    /\ UNCHANGED <<wall, limits, admitted, served, resp, servers, now, began, engine, history, idSeq, histSeq>>

\* delete as it would be if an absent id were an error
Delete_NotFoundRaises(s, i) ==
    /\ CanStart(s)
    /\ IF get_by_id(i) = NoRow THEN Reject(s, "delete", <<>>, "NotFoundError")
       ELSE AppendPreImage(s, "delete", i, <<>>, "delete_remove")

\* InstanceService.delete, first part: get_by_id,
\* HistoryService.save_history(DELETE)
Delete(s, i) ==
    /\ CanStart(s)
    /\ IF get_by_id(i) = NoRow THEN Reject(s, "delete", <<>>, "False")
       ELSE AppendPreImage(s, "delete", i, <<>>, "delete_remove")

\* InstanceService.delete, second part: session.delete(instance),
\* session.commit().  A DELETE that matches no row only warns.
DeleteRemove(s) ==
    /\ pc[s] = "delete_remove"
    /\ \E ok \in CommitOutcomes :
        /\ Faulted(ok)
        /\ IF ok
           THEN /\ instances' = {r \in instances : r.id # loc[s].id}
                /\ EndCall(s, "delete", <<>>, "True", FALSE)
                /\ Settle(s, IF loc[s].id \in Ids THEN "applied" ELSE "ok")
           ELSE /\ EndCall(s, "delete", <<>>, "OperationError", FALSE)
                /\ Settle(s, "failed")
                /\ UNCHANGED instances
    /\ UNCHANGED <<wall, limits, admitted, served, resp, servers, now, began, engine, history, idSeq, histSeq>>

\* InstanceService.copy_instance up to the commit inside InstanceService.create
Copy(s, i, n) ==
    /\ CanStart(s)
    /\ LET src == get_by_id(i)
           new_name == IF n = <<>> THEN generate_copy_name(src.name) ELSE n
       IN
       IF src = NoRow THEN Reject(s, "copy", n, "NotFoundError")
       ELSE IF n # <<>> /\ get_by_name(n) # NoRow THEN Reject(s, "copy", n, "ConflictError")
       ELSE IF new_name = <<>> THEN Reject(s, "copy", n, "OperationError")
       ELSE /\ Len(new_name) <= MaxNameTokens
            /\ InsertInstance(s, "copy", CopyData(src, new_name))

Next ==
    \E s \in Sessions :
        \/ \E d \in CreateInputs : Create(s, d)
        \/ CreateSaveHistory(s)
        \/ \E i \in 1..MaxId, p \in UpdateInputs : Update(s, i, p)
        \/ UpdateApply(s)
        \/ \E i \in 1..MaxId : Delete(s, i)
        \/ DeleteRemove(s)
        \/ \E i \in 1..MaxId, n \in CopyNameInputs : Copy(s, i, n)

Spec == Init /\ [][Next]_vars

\* ------------------------------------------------------- one server, clock
\* A second passes
Tick ==
    /\ now < MaxClock
    /\ now' = now + 1
    /\ UNCHANGED <<wall, limits, admitted, served, resp, servers, began, engine, instances, history, idSeq, histSeq, pc, patch, loc, hidx,
                   outcome, faults, last>>

InitSeq ==
    /\ servers = 1
    /\ now = 0
    /\ engine \in Engines
    /\ instances = {}
    /\ history = <<>>
    /\ idSeq = 0
    /\ histSeq = 0
    /\ pc = [s \in Sessions |-> "idle"]
    /\ patch = [s \in Sessions |-> <<>>]
    /\ loc = [s \in Sessions |-> NoRow]
    /\ hidx = [s \in Sessions |-> 0]
    /\ outcome = <<>>
    /\ faults = 0
    /\ LimiterInit(AuthRateLimit)
    /\ began = [s \in Sessions |-> 0]
    /\ last = NoCall

\* One server is inside one request at a time: one session is open
SeqSessions == {"s1"}

NextSeq ==
    \/ Tick
    \/ \E s \in SeqSessions :
        \/ \E d \in SeqCreateInputs : Create(s, d)
        \/ CreateSaveHistory(s)
        \/ \E i \in 1..MaxIdSeq, p \in SeqUpdateInputs : Update(s, i, p)
        \/ UpdateApply(s)
        \/ \E i \in 1..MaxIdSeq : Delete(s, i)
        \/ DeleteRemove(s)
        \/ \E i \in 1..MaxIdSeq, n \in CopyNameInputs : Copy(s, i, n)

SpecSeq == InitSeq /\ [][NextSeq]_vars

\* ------------------------------------------ one server, data to validate
NextVal ==
    \E s \in SeqSessions :
        \/ \E d \in ValCreateInputs : Create(s, d)
        \/ CreateSaveHistory(s)
        \/ \E i \in 1..MaxIdSeq, p \in ValUpdateInputs : Update(s, i, p)
        \/ UpdateApply(s)
        \/ \E i \in 1..MaxIdSeq : Delete(s, i)
        \/ DeleteRemove(s)
        \/ \E i \in 1..MaxIdSeq, n \in CopyNameInputs : Copy(s, i, n)

SpecVal == InitSeq /\ [][NextVal]_vars

\* ------------------------------- two servers, an update's statements apart
StampInputs == {[status |-> "inactive"]}

\* InstanceService.update up to save_history: get_by_id, whose SELECT opens
\* the transaction, and _validate_update_data
UpdateBegin(s, i, p) ==
    /\ pc[s] = "idle"
    /\ IF get_by_id(i) = NoRow THEN Reject(s, "update", PatchName(p), "NotFoundError")
       ELSE IF ~ValidateUpdateData(p) THEN Reject(s, "update", PatchName(p), "ValidationError")
       ELSE /\ pc' = [pc EXCEPT ![s] = "update_history"]
            /\ loc' = [loc EXCEPT ![s] = get_by_id(i)]
            /\ patch' = [patch EXCEPT ![s] = p]
            /\ began' = [began EXCEPT ![s] = now]
            /\ UNCHANGED <<wall, limits, admitted, served, resp, servers, now, engine, instances, history, idSeq, histSeq, hidx,
                           outcome, faults, last>>

\* HistoryService.save_history(UPDATE) of the running update: from_instance
\* of the object the session loaded, the INSERT, the commit, and the reload
\* of the expired instance when the log line reads instance.name (which
\* fails when the row is gone)
UpdateSaveHistory(s) ==
    /\ pc[s] = "update_history"
    /\ NextHistoryId <= MaxHist
    /\ histSeq' = IF engine = "postgresql" THEN histSeq + 1 ELSE histSeq
    /\ \E ok \in CommitOutcomes :
        /\ Faulted(ok)
        /\ IF ~ok
           THEN /\ EndCall(s, "update", PatchName(patch[s]), "OperationError", FALSE)
                /\ UNCHANGED <<history, outcome>>
           ELSE /\ history' = AppendHistory(history,
                                from_instance(loc[s], "update", NextHistoryId, TxnTimestamp(s)))
                /\ IF get_by_id(loc[s].id) = NoRow
                   THEN /\ EndCall(s, "update", PatchName(patch[s]), "OperationError", FALSE)
                        /\ outcome' = Append(outcome, "failed")
                   ELSE /\ loc' = [loc EXCEPT ![s] = get_by_id(loc[s].id)]
                        /\ hidx' = [hidx EXCEPT ![s] = Len(history) + 1]
                        /\ pc' = [pc EXCEPT ![s] = "update_apply"]
                        /\ outcome' = Append(outcome, "pending")
                        /\ UNCHANGED <<patch, last>>
    /\ UNCHANGED <<wall, limits, admitted, served, resp, servers, now, began, engine, instances, idSeq>>

InitStamp ==
    /\ servers = 2
    /\ now = 0
    /\ began = [s \in Sessions |-> 0]
    /\ engine \in Engines
    /\ instances = {}
    /\ history = <<>>
    /\ idSeq = 0
    /\ histSeq = 0
    /\ pc = [s \in Sessions |-> "idle"]
    /\ patch = [s \in Sessions |-> <<>>]
    /\ loc = [s \in Sessions |-> NoRow]
    /\ hidx = [s \in Sessions |-> 0]
    /\ outcome = <<>>
    /\ faults = 0
    /\ LimiterInit(AuthRateLimit)
    /\ last = NoCall

NextStamp ==
    \/ Tick
    \/ \E s \in Sessions :
        \/ Create(s, GoodData)
        \/ CreateSaveHistory(s)
        \/ \E i \in 1..MaxId, p \in StampInputs : UpdateBegin(s, i, p)
        \/ UpdateSaveHistory(s)
        \/ UpdateApply(s)
        \/ \E i \in 1..MaxId : Delete(s, i)
        \/ DeleteRemove(s)

SpecStamp == InitStamp /\ [][NextStamp]_vars

\* ------------------------------------------- the middleware's rate limiter
\* One server process with auth_rate_limit configured; the database is not
\* touched
InitRate ==
    /\ servers = 1
    /\ now = 0
    /\ began = [s \in Sessions |-> 0]
    /\ engine \in Engines
    /\ instances = {}
    /\ history = <<>>
    /\ idSeq = 0
    /\ histSeq = 0
    /\ pc = [s \in Sessions |-> "idle"]
    /\ patch = [s \in Sessions |-> <<>>]
    /\ loc = [s \in Sessions |-> NoRow]
    /\ hidx = [s \in Sessions |-> 0]
    /\ outcome = <<>>
    /\ last = NoCall
    /\ \E limit \in 1..MaxRateLimit :
        /\ faults = 0
        /\ LimiterInit(limit)

NextRate ==
    \E k \in ClientKeys, kind \in Kinds, gap \in Gaps, lag \in Lags : dispatch(k, kind, gap, lag)

SpecRate == InitRate /\ [][NextRate]_vars

\* ------------------------------------------- copies of a much copied name
\* The server starts on a database that already holds rows (init_db leaves
\* them alone), from before the history table was added
\* (migrate_database.create_history_table_if_missing): the row named base,
\* base+"copy" if plain, and base+"copy"+k for k = 1..m except k = hole
\* (the small tables come with and without a hole).
TableRow(n, i) ==
    NewInstance([name |-> n, model_name |-> "m1", cluster_name |-> "c1", image_tag |-> "v1"], i)
CopyTable(base, plain, m, hole) ==
    {TableRow(base, 1)}
    \cup (IF plain THEN {TableRow(base \o <<"copy">>, 2)} ELSE {})
    \cup {TableRow(Numbered(base, k), k + 2) : k \in (1..m) \ {hole}}

SmallTables == 0..12
CopyTableSizes == SmallTables \cup {CopyAttempts - 1, CopyAttempts}
CopyTableHoles(m) == IF m \in SmallTables THEN {0, 1, 2} ELSE {0}

InitCopyName ==
    /\ servers = 1
    /\ now = 0
    /\ engine \in Engines
    /\ \E base \in BaseNames, plain \in BOOLEAN, m \in CopyTableSizes :
         \E hole \in CopyTableHoles(m) :
            /\ instances = CopyTable(base, plain, m, hole)
            /\ idSeq = m + 2
    /\ history = <<>>
    /\ histSeq = 0
    /\ outcome = <<>>
    /\ pc = [s \in Sessions |-> "idle"]
    /\ patch = [s \in Sessions |-> <<>>]
    /\ loc = [s \in Sessions |-> NoRow]
    /\ hidx = [s \in Sessions |-> 0]
    /\ faults = 0
    /\ LimiterInit(AuthRateLimit)
    /\ began = [s \in Sessions |-> 0]
    /\ last = NoCall

NextCopyName ==
    \E s \in SeqSessions :
        \/ \E i \in 1..MaxIdSeq, n \in CopyNameInputs \cup BaseNames : Copy(s, i, n)
        \/ CreateSaveHistory(s)

SpecCopyName == InitCopyName /\ [][NextCopyName]_vars

TypeOK ==
    /\ engine \in Engines
    /\ \A r \in instances : r.id \in 1..IdCap
    /\ Len(history) = Len(outcome)
    /\ Len(history) <= MaxHist
    /\ faults <= MaxFaults

\* =================================================================== claims
Records == DOMAIN history
RecordsOf(i) == {k \in Records : history[k].original_id = i}
Running(s) == pc[s] # "idle"

\* C1: after any sequence of create/update/delete calls, failed steps
\* included, the committed state pairs every Instance-side change with its
\* HistoryRecord and every HistoryRecord with a change that took effect: an
\* Instance row whose create is over has a 'create' record, and no record
\* stays behind from a call that failed.
C1_Atomicity ==
    /\ \A r \in instances :
        \/ \E k \in RecordsOf(r.id) : history[k].operation_type = "create"
        \/ \E s \in Sessions : pc[s] \in {"create_history", "copy_history"} /\ loc[s].id = r.id
    /\ \A k \in Records : outcome[k] # "failed"

\* C2: if the HistoryRecord append fails during create, the create is rolled
\* back: after the failed call no Instance row has the requested name and the
\* History table is unchanged.
C2_CreateRolledBack ==
    [][\A s \in Sessions :
        (pc[s] = "create_history" /\ pc'[s] = "idle" /\ last'.res = "OperationError")
            => /\ \A r \in instances' : r.name # loc[s].name
               /\ history' = history]_vars

\* C3: if update or delete fails at a step after its pre-image has been
\* appended, no HistoryRecord of that call remains committed and the Instance
\* row is as it was before the call.
C3_FailedMutationLeavesNothing ==
    [][\A s \in Sessions :
        (pc[s] \in {"update_apply", "delete_remove"} /\ pc'[s] = "idle"
         /\ last'.res \notin {"ok", "True"})
            => /\ instances' = instances
               /\ \A k \in DOMAIN history' :
                    ~(k = hidx[s] /\ history'[k].original_id = loc[s].id)]_vars

\* C4: a reader of the committed tables never sees an intermediate state of
\* a mutation: no Instance row without its 'create' record, and no 'update'
\* or 'delete' record whose patch or removal is not committed yet.
C4_NoIntermediateState ==
    /\ \A r \in instances :
        \E k \in RecordsOf(r.id) : history[k].operation_type = "create"
    /\ \A k \in Records :
        history[k].operation_type \in {"update", "delete"} => outcome[k] # "pending"

Succeeded(k) == outcome[k] \in {"ok", "applied"}

\* C5: every successful create, update or delete appends exactly one record
\* for the affected id, so once no call is running count_history of an id is
\* the number of successful operations on it.
C5_CountIsSuccessfulOps ==
    (\A s \in Sessions : ~Running(s))
        => \A i \in 1..MaxId :
            count_history(i) = Cardinality({k \in RecordsOf(i) : Succeeded(k)})

\* C6: the record appended by a successful update holds, field for field, the
\* Instance's values as they were immediately before the patch was applied,
\* and the record appended by create holds the just-created state.
C6_PreImage ==
    [][\A s \in Sessions :
        /\ (pc[s] = "update_apply" /\ pc'[s] = "idle" /\ last'.res = "ok")
            => Snapshot(history[hidx[s]]) = get_by_id(loc[s].id)
        /\ (pc[s] = "create_history" /\ pc'[s] = "idle" /\ last'.res = "ok")
            => Snapshot(history'[Len(history')]) = loc[s]]_vars

SameIncarnation(k1, k2) ==
    \A j \in RecordsOf(history[k1].original_id) :
        (k1 < j /\ j < k2) => history[j].operation_type = "update"

\* C7: two concurrent updates of one Instance are serialized: it never
\* happens that two 'update' records of the same instance (no create or
\* delete record between them) hold the same pre-image while both patches
\* were applied.  (Every patch of UpdateInputs that changes a row cannot be
\* undone by another, so two updates applied one after the other differ in
\* their pre-images.)
C7_UpdatesSerialized ==
    \A k1, k2 \in Records :
        (/\ k1 < k2
         /\ history[k1].operation_type = "update" /\ history[k2].operation_type = "update"
         /\ history[k1].original_id = history[k2].original_id
         /\ SameIncarnation(k1, k2)
         /\ outcome[k1] = "applied" /\ outcome[k2] = "applied")
            => Snapshot(history[k1]) # Snapshot(history[k2])

\* C8: for every original_id the records in insertion order are one 'create',
\* then 'update's, then at most one 'delete', and nothing after a 'delete'.
C8_Lifecycle ==
    \A k \in Records :
        LET before == {j \in RecordsOf(history[k].original_id) : j < k} IN
        /\ (history[k].operation_type = "create") <=> (before = {})
        /\ \A j \in before : history[j].operation_type # "delete"

NamesUnique == \A r1, r2 \in instances : r1.name = r2.name => r1 = r2
DuplicatingInsert ==
    /\ pc' = pc
    /\ last'.op \in {"create", "copy"}
    /\ last'.name \in Names
    /\ last'.res # "NotFoundError"
DuplicatingRename(s) ==
    /\ pc[s] = "update_apply" /\ pc'[s] = "idle"
    /\ loc[s].id \in Ids
    /\ "name" \in PatchedColumns(loc[s], patch[s])
    /\ \E o \in instances : o.id # loc[s].id /\ o.name = patch[s].name

\* C9: no two Instance rows ever share a name, and a create, copy or renaming
\* update that would duplicate an existing name (an INSERT of a name in use,
\* or an UPDATE that writes a name another row has) fails with ConflictError
\* and writes no row.
C9_UniqueNames ==
    [][/\ NamesUnique'
       /\ (DuplicatingInsert \/ \E s \in Sessions : DuplicatingRename(s))
            => (last'.res = "ConflictError" /\ instances' = instances)]_vars

C9_Witness ==
    /\ last.res = "ConflictError"
    /\ Cardinality({r \in instances : r.name = last.name}) = 1

\* C10: once a HistoryRecord has been appended no later call changes any of
\* its fields or removes it, also not a later in-place change of the source
\* Instance's priority list.
C10_HistoryImmutable ==
    [][\A k \in DOMAIN history : k \in DOMAIN history' /\ history'[k] = history[k]]_vars

C10_Witness ==
    /\ last.op = "update" /\ last.res = "ok" /\ last.inplace
    /\ \E k \in Records : history[k].operation_type = "update" /\ history[k].priorities[1] = "high"

\* C11: once no call is running, get_history(i) without filters and
\* pagination returns as many records as operations on i have succeeded, in
\* non-increasing (operation_timestamp, history_id) order, history_id
\* deciding between equal timestamps.
C11_HistoryOrdering ==
    (\A s \in Sessions : ~Running(s))
        => \A i \in 1..IdCap :
            LET h == get_history(i) IN
            /\ Len(h) = Cardinality({k \in RecordsOf(i) : Succeeded(k)})
            /\ \A j \in 1..(Len(h) - 1) : Newer(h[j], h[j + 1])

\* C12: history_id is strictly increasing by insertion order: a record
\* inserted before another, for whatever instance and by whatever session,
\* has the smaller history_id, so no two records share one.
C12_HistoryIdIncreasing ==
    \A k1, k2 \in Records : k1 < k2 => history[k1].history_id < history[k2].history_id

C12_Witness ==
    /\ Len(history) >= 2
    /\ \E k1, k2 \in Records : history[k1].original_id # history[k2].original_id
    /\ \E k \in Records : history[k].history_id > k

\* C13: after a successful delete get_by_id of the instance is absent, and
\* the history retrieval for that id, InstanceService.get_instance_history as
\* well as HistoryService.get_history, still returns every record with that
\* original_id, the new 'delete' record included.
C13_HistorySurvivesDelete ==
    [][\A s \in Sessions, i \in 1..IdCap :
        (pc[s] = "delete_remove" /\ pc'[s] = "idle" /\ last'.res = "True" /\ loc[s].id = i)
            => /\ get_by_id(i)' = NoRow
               /\ \E k \in RecordsOf(i)' : history'[k].operation_type = "delete"
               /\ Len(get_history(i)') = Cardinality(RecordsOf(i)')
               /\ get_instance_history(i)'.raised = "none"
               /\ get_instance_history(i)'.records = get_history(i)']_vars

SlotsAfterFirst(l) == [j \in 2..Len(l) |-> l[j]]

\* C14: a successful update with priority = v of an instance created with
\* the priority list [high, normal, low, very_low] leaves the persisted list
\* with v in its first slot and the other three slots as they were.
C14_PriorityUpdate ==
    [][\A s \in Sessions, i \in 1..IdCap :
        (/\ pc[s] = "update_apply" /\ pc'[s] = "idle" /\ last'.res = "ok" /\ loc[s].id = i
         /\ Has(patch[s], "priority") /\ ~Has(patch[s], "priorities"))
            => /\ get_by_id(i)'.priorities[1] = patch[s].priority
               /\ SlotsAfterFirst(get_by_id(i)'.priorities)
                    = SlotsAfterFirst(get_by_id(i).priorities)]_vars

CopiedFields == {"model_name", "cluster_name", "image_tag", "priorities", "desc", "status"}

\* C15: the Instance a copy produces equals its source in every field other
\* than name, id, created_at and updated_at, the priority list included.
C15_CopyEqualsSource ==
    [][\A s \in Sessions, i \in 1..MaxIdSeq, n \in CopyNameInputs :
        (Copy(s, i, n) /\ pc'[s] = "copy_history")
            => /\ loc'[s] \in instances'
               /\ \A f \in CopiedFields : loc'[s][f] = get_by_id(i)[f]]_vars

SmallestFree(base) ==
    CHOOSE k \in 1..CopyAttempts :
        /\ Numbered(base, k) \notin Names
        /\ \A j \in 1..(k - 1) : Numbered(base, j) \in Names

AllTaken(base) ==
    /\ (base \o <<"copy">>) \in Names
    /\ \A k \in 1..CopyAttempts : Numbered(base, k) \in Names

ProtectedFields == {"id", "created_at"}
Identity(rows) == {[id |-> r.id, created_at |-> r.created_at] : r \in rows}
C18_ProtectedFields ==
    [][/\ \A s \in Sessions, i \in 1..IdCap, p \in SeqUpdateInputs :
            (Update(s, i, p) /\ get_by_id(i) # NoRow /\ ProtectedFields \cap DOMAIN p # {})
              => /\ last'.op = "update"
                 /\ last'.res = "ValidationError"
                 /\ pc'[s] = "idle"
                 /\ instances' = instances
                 /\ history' = history
       /\ \A s \in Sessions :
            (pc[s] = "update_apply" /\ pc'[s] = "idle" /\ last'.res = "ok")
              => /\ Identity(instances') = Identity(instances)
                 /\ Cardinality(instances') = Cardinality(instances)]_vars

\* a patch naming a protected field was refused for a row that an earlier
\* update had already changed at a later time than its creation
C18_Witness ==
    /\ last.op = "update"
    /\ last.res = "ValidationError"
    /\ \E r \in instances : r.updated_at > r.created_at /\ r.created_at = 0
    /\ \E r \in instances : r.created_at = 1

\* C19: a successful update leaves every other row as it was, and in the
\* updated row every field the patch does not name, other than updated_at,
\* as it was before the call (the key priority names the priority list, the
\* key description the column desc).
NamedBy(p) ==
    (DOMAIN p \ {"description", "priority"})
    \cup (IF Has(p, "description") THEN {"desc"} ELSE {})
    \cup (IF Has(p, "priority") THEN {"priorities"} ELSE {})
C19_UpdateFrame ==
    [][\A s \in Sessions, i \in 1..IdCap :
        (pc[s] = "update_apply" /\ pc'[s] = "idle" /\ last'.res = "ok" /\ loc[s].id = i)
          => /\ \A r \in instances : r.id # i => r \in instances'
             /\ Cardinality(instances') = Cardinality(instances)
             /\ get_by_id(i)' # NoRow
             /\ \A f \in DOMAIN get_by_id(i) \ (NamedBy(patch[s]) \cup {"updated_at"}) :
                    /\ get_by_id(i)'[f] = get_by_id(i)[f]
                    /\ get_by_id(i)'[f] = loc[s][f]]_vars

\* the row created with a description has had its status changed by an
\* update and still has its description, next to a second row
C19_Witness ==
    /\ last.op = "update"
    /\ last.res = "ok"
    /\ Cardinality(instances) >= 2
    /\ \E r \in instances : r.desc = "d1" /\ r.status = "inactive" /\ r.updated_at > r.created_at

\* C20: after every successful update call the Instance's updated_at is the
\* time of that call: not earlier than the moment the call began (the
\* operation_timestamp of the pre-image it saved) and not later than the
\* moment it returns.
C20_UpdatedAtRefreshed ==
    [][\A s \in Sessions, i \in 1..IdCap :
        (pc[s] = "update_apply" /\ pc'[s] = "idle" /\ last'.res = "ok" /\ loc[s].id = i)
          => /\ get_by_id(i)' # NoRow
             /\ get_by_id(i)'.updated_at >= history[hidx[s]].operation_timestamp
             /\ get_by_id(i)'.updated_at <= now]_vars

\* C21: an update that ends with NotFoundError or ValidationError appends no
\* history record and changes no Instance row; an update of an absent id
\* ends with NotFoundError, one of an existing Instance whose patch holds a
\* status or priority outside the enumeration, or a pp, cp, tp or replicas
\* below one, with ValidationError.
BadPatches ==
    {[status |-> "bogus"], [priority |-> "bogus"], [pp |-> 0], [cp |-> 0], [tp |-> 0], [replicas |-> 0]}
JustDeleted(i) ==
    /\ last.op = "delete"
    /\ last.res = "True"
    /\ history # <<>>
    /\ history[Len(history)].operation_type = "delete"
    /\ history[Len(history)].original_id = i
C22_DeleteAbsent ==
    [][\A s \in Sessions, i \in 1..IdCap :
        /\ (Delete(s, i) /\ get_by_id(i) = NoRow)
              => /\ last'.op = "delete"
                 /\ last'.res = "False"
                 /\ pc'[s] = "idle"
                 /\ instances' = instances
                 /\ history' = history
        /\ (Delete(s, i) /\ JustDeleted(i))
              => /\ last'.res = "False"
                 /\ history' = history]_vars

\* the second of two deletes in a row has returned false: the id has one
\* 'delete' record, the newest of the history
C22_Witness ==
    /\ last.op = "delete"
    /\ last.res = "False"
    /\ history # <<>>
    /\ history[Len(history)].operation_type = "delete"
    /\ history[Len(history)].original_id \notin Ids
    /\ Cardinality({k \in DOMAIN history : history[k].operation_type = "delete"}) = 1

\* C23: a create whose data lacks name, model_name, cluster_name or
\* image_tag or has it empty, or holds a parallelism, worker or replica
\* count below one or a status or priority outside its enumeration, ends
\* with ValidationError and persists neither an Instance row nor a history
\* record.
ViolatesConstraint(d) ==
    \/ \E k \in RequiredFields : ~Has(d, k) \/ d[k] = Empty(k)
    \/ \E k \in ShapeFields \cap DOMAIN d : d[k] < 1
    \/ Has(d, "status") /\ d.status \notin StatusValues
    \/ Has(d, "priority") /\ d.priority \notin PriorityValues
C23_InvalidCreateRejected ==
    [][\A s \in Sessions, d \in ValCreateInputs :
        (Create(s, d) /\ ViolatesConstraint(d))
          => /\ last'.op = "create"
             /\ last'.res = "ValidationError"
             /\ pc'[s] = "idle"
             /\ instances' = instances
             /\ history' = history]_vars

\* C24: every stored Instance has pp, cp, tp, n_workers and replicas all at
\* least one.
C24_ShapePositive ==
    \A r \in instances : \A f \in ShapeFields : r[f] >= 1

\* C25: validate_history_integrity(original_id) is true exactly when the
\* subject's records, in history_id order, have non-decreasing timestamps
\* and no history_id twice; so it is false when a record stored later has
\* an earlier timestamp.
StoredInTimeOrder(i) ==
    \A k1, k2 \in DOMAIN history :
        (/\ history[k1].original_id = i
         /\ history[k2].original_id = i
         /\ history[k1].history_id < history[k2].history_id)
          => history[k1].operation_timestamp <= history[k2].operation_timestamp
NoDuplicateHistoryId(i) ==
    \A k1, k2 \in DOMAIN history :
        (/\ history[k1].original_id = i
         /\ history[k2].original_id = i
         /\ history[k1].history_id = history[k2].history_id) => k1 = k2
C25_IntegrityDetects ==
    \A i \in 1..IdCap :
        validate_history_integrity(i) = (StoredInTimeOrder(i) /\ NoDuplicateHistoryId(i))

\* C26: for every instance id and filter mapping, count_history(id, filters)
\* is the number of records get_history(id, filters) returns without limit
\* and offset, and count_history(None, filters) the number get_all_history
\* (filters) returns.
C26_CountMatchesList ==
    \A f \in FilterInputs :
        /\ count_history_filtered(None, f) = Len(get_all_history(f, None, None))
        /\ \A i \in 1..IdCap :
              count_history_filtered(i, f) = Len(get_history_page(i, f, None, None))

\* a history where a filter admits some but not all of a subject's records,
\* and some but not all of the table's
C26_Witness ==
    \E f \in FilterInputs, i \in 1..IdCap :
        /\ count_history_filtered(i, f) >= 1
        /\ count_history_filtered(i, f) < count_history_filtered(i, <<>>)
        /\ count_history_filtered(None, f) > count_history_filtered(i, f)
        /\ count_history_filtered(None, f) < Len(history)

\* C27: get_latest_history(id, operation_type) is the first element of
\* get_history(id, {operation_type}) in its (timestamp desc, history_id
\* desc) order, or absent when that list is empty, and the latest-history
\* endpoint gives the same record.
C27_LatestIsHeadOfList ==
    \A i \in 1..IdCap, op \in OperationTypes :
        LET h == get_history_page(i, [operation_type |-> {op}], None, None)
        IN /\ get_latest_history(i, op) = IF Len(h) = 0 THEN NoRecord ELSE h[1]
           /\ \A j \in 2..Len(h) : Newer(h[1], h[j])
           /\ latest_endpoint(i, op) = get_latest_history(i, op)

\* a subject has two records of one operation type, the one inserted last
\* with the earlier timestamp, and no record of another type
C27_Witness ==
    \E i \in 1..IdCap, k1, k2 \in DOMAIN history :
        /\ history[k1].original_id = i
        /\ history[k2].original_id = i
        /\ history[k1].operation_type = history[k2].operation_type
        /\ k1 < k2
        /\ history[k1].operation_timestamp > history[k2].operation_timestamp
        /\ get_latest_history(i, "delete") = NoRecord

\* C28: on an unchanged table the pages get_history returns for offsets 0,
\* L, 2L, ... with limit L, put one after the other, are the full filtered
\* list, and has_more of a page is true exactly when the next page is not
\* empty (for every subject that has records: the others have empty pages).
Subjects == {history[k].original_id : k \in DOMAIN history}
PageFilters ==
    {<<>>, [operation_type |-> {"update"}], [operation_type |-> {"create", "delete"}], [date_from |-> 1]}
RECURSIVE PagesFrom(_, _, _, _)
PagesFrom(i, f, L, offset) ==
    IF offset > Len(history) THEN <<>>
    ELSE get_history_page(i, f, L, offset) \o PagesFrom(i, f, L, offset + L)
C28_PagesPartition ==
    \A i \in Subjects, f \in PageFilters, L \in 1..MaxLimit :
        /\ PagesFrom(i, f, L, 0) = get_history_page(i, f, None, None)
        /\ \A n \in 0..(Len(history) \div L) :
              has_more(i, f, L, n * L) = (Len(get_history_page(i, f, L, (n + 1) * L)) > 0)

\* a subject's three records make a full page and a page that is not full
C28_Witness ==
    \E i \in 1..IdCap :
        /\ Len(get_history_page(i, <<>>, None, None)) = 3
        /\ Len(get_history_page(i, <<>>, 2, 0)) = 2
        /\ Len(get_history_page(i, <<>>, 2, 2)) = 1
        /\ has_more(i, <<>>, 2, 0)
        /\ ~has_more(i, <<>>, 2, 2)

\* C29: for every original_id that has records, get_latest_history returns
\* the record appended last for it, the one with the greatest history_id,
\* and the newest-first list is the reverse of the insertion order.
C29_LatestIsLastAppended ==
    \A i \in Subjects :
        /\ \A k \in DOMAIN history :
              history[k].original_id = i
                => history[k].history_id <= get_latest_history(i, AnyOperation).history_id
        /\ LET h == get_history(i)
           IN \A j \in 1..(Len(h) - 1) : h[j].history_id > h[j + 1].history_id

\* C30: for every client key, the authentication requests the limiter lets
\* through within any 60 seconds are never more than the configured limit;
\* a request it refuses is not recorded; and a request is let through
\* exactly when fewer than limit of the requests let through lie within
\* the 60 seconds up to it.
InWindow(k, from, upto) ==
    Cardinality({j \in DOMAIN admitted[k] : from <= admitted[k][j] /\ admitted[k][j] <= upto})
WithinLimit ==
    \A k \in ClientKeys : \A j \in DOMAIN admitted[k] :
        InWindow(k, admitted[k][j], admitted[k][j] + WindowSeconds - 1) <= limits[k].max_requests
C30_RateLimit ==
    [][/\ WithinLimit'
       /\ \A k \in ClientKeys :
            (served' = served + 1 /\ resp'.key = k /\ resp'.kind = "auth")
              => /\ resp'.status = 429
                    => /\ admitted' = admitted
                       /\ Len(limits'[k].requests) <= Len(limits[k].requests)
                       /\ \A j \in DOMAIN limits'[k].requests :
                             \E m \in DOMAIN limits[k].requests :
                                limits'[k].requests[j] = limits[k].requests[m]
                 /\ (resp'.status = 200)
                      = (InWindow(k, resp'.at - WindowSeconds + 1, resp'.at) < limits[k].max_requests)
                 /\ resp'.status = 200 => Len(admitted'[k]) = Len(admitted[k]) + 1]_vars

\* a key at its limit was refused, and let through again when its oldest
\* request had left the window, while the other key was let through
C30_Witness ==
    \E k \in ClientKeys :
        /\ resp.key = k
        /\ resp.kind = "auth"
        /\ resp.status = 200
        /\ served = MaxRequests
        /\ Len(admitted[k]) = limits[k].max_requests + 1
        /\ admitted[k][Len(admitted[k])] - admitted[k][1] = WindowSeconds

====
